---- MODULE Spec2Model ----
(***************************************************************************)
(* AppConf (src/appconf.py): a configuration class that builds a FastAPI   *)
(* application, registers the CORS middleware on it, mounts the bundled    *)
(* Swagger UI assets and monkey-patches fastapi.applications'              *)
(* get_swagger_ui_html.                                                    *)
(*                                                                         *)
(* State: the AppConf instances of the process (their stored keyword       *)
(* arguments and their app field), the FastAPI applications created so     *)
(* far, the module-level applications.get_swagger_ui_html, the two bundled *)
(* files on disk, and the outcome of the last call or HTTP request.        *)
(***************************************************************************)
EXTENDS Naturals, Sequences, FiniteSets

VARIABLES cfg, disk, app, apps, get_swagger_ui_html, ret

vars == <<cfg, disk, app, apps, get_swagger_ui_html, ret>>

(* ------------------------------ bounds --------------------------------- *)
\* middleware layers and static mounts registered in one process, over all
\* the applications it has created
MaxRegistered == 3

(* ------------------------------ values --------------------------------- *)
\* Python's None for a keyword argument that was not given (kwargs.get)
None == "None"
\* self.app = None, and the applications are numbered from 1
NoApp == 0
\* applications.get_swagger_ui_html as imported from the framework
Original == 0
\* the AppConf instances of the process
Instances == {1, 2}

\* Python truthiness of an optional string: None and "" are falsy
Truthy(x) == x # None /\ x # ""

\* fastapi_offline_swagger_ui.__path__[0]
asset_path == "fastapi_offline_swagger_ui"

\* the defaults of fastapi.openapi.docs.get_swagger_ui_html
DefaultCss == "https://cdn.jsdelivr.net/npm/swagger-ui-dist@5/swagger-ui.css"
DefaultJs == "https://cdn.jsdelivr.net/npm/swagger-ui-dist@5/swagger-ui-bundle.js"
DefaultFavicon == "https://fastapi.tiangolo.com/img/favicon.png"

(* --------------------------- configurations ---------------------------- *)
\* AppConf.__init__: every keyword argument is stored verbatim
ConfA ==
    [title |-> "A", version |-> "1.0", openapi_prefix |-> None,
     assets_url |-> "/assets", openapi_url |-> "/openapi.json",
     docs_url |-> "/docs",
     swagger_css_url |-> "/assets/a.css", swagger_js_url |-> "/assets/a.js",
     swagger_favicon_url |-> "/assets/a.png",
     origins |-> <<"https://a.example">>]

ConfB ==
    [title |-> "B", version |-> "2.0", openapi_prefix |-> None,
     assets_url |-> "/static", openapi_url |-> "/openapi.json",
     docs_url |-> "/documentation",
     swagger_css_url |-> "/static/b.css", swagger_js_url |-> "/static/b.js",
     swagger_favicon_url |-> "/static/b.png",
     origins |-> <<"https://a.example", "https://b.example">>]

\* the keyword arguments the first instance may be constructed with: each
\* of the four asset fields absent or empty in turn, a mount path the
\* framework rejects, no documentation route, an empty list of origins and
\* the wildcard
Configs ==
    { ConfA,
      ConfB,
      [ConfA EXCEPT !.swagger_favicon_url = None],
      [ConfA EXCEPT !.swagger_css_url = ""],
      [ConfB EXCEPT !.swagger_js_url = None, !.origins = <<"*">>],
      [ConfA EXCEPT !.assets_url = None, !.docs_url = None,
                    !.origins = <<>>],
      [ConfB EXCEPT !.assets_url = "assets"] }

\* the keyword arguments of the second instance
Configs2 ==
    { ConfB,
      [ConfB EXCEPT !.assets_url = "assets"],
      [ConfB EXCEPT !.swagger_js_url = None, !.origins = <<"*">>] }

\* Origin headers of the requests sent to the applications
Origins == {"https://a.example", "https://b.example"}

(* ------------------------------ framework ------------------------------ *)
\* FastAPI(title=, version=, openapi_url=, docs_url=): a fresh application
FastAPI(c) ==
    [title |-> c.title, version |-> c.version,
     openapi_url |-> c.openapi_url, docs_url |-> c.docs_url,
     user_middleware |-> <<>>, mounts |-> <<>>, started |-> FALSE]

\* CorsOptions with allow_credentials left at the framework's default
CorsOptionsNoCredentials(c) ==
    [cls |-> "CORSMiddleware", allow_origins |-> c.origins,
     allow_credentials |-> FALSE, allow_methods |-> <<"*">>,
     allow_headers |-> <<"*">>]

\* CORSMiddleware with the options configure_cors passes
CorsOptions(c) ==
    [cls |-> "CORSMiddleware", allow_origins |-> c.origins,
     allow_credentials |-> TRUE, allow_methods |-> <<"*">>,
     allow_headers |-> <<"*">>]

\* Starlette's Mount asserts that a routed path starts with "/"; of the
\* assets_url values above these do
ValidMountPath(p) == p \in {"/assets", "/static"}

(* ---------------------------- AppConf methods --------------------------- *)
\* The methods are functions of the process state w = [app, apps, gsui]
\* (every instance's app field, the applications, the module-level
\* applications.get_swagger_ui_html).  Each yields the state it leaves, the
\* exception it raised ("none" when it returned) and the framework calls it
\* made, in order.
World == [app |-> app, apps |-> apps, gsui |-> get_swagger_ui_html]

Returned(w, steps) == [w |-> w, exc |-> "none", steps |-> steps]
Raised(w, exc, steps) == [w |-> w, exc |-> exc, steps |-> steps]

\* app.add_middleware(cls, **options): the new layer becomes the outermost.
\* Once the application has served a request the middleware stack is built:
\* a strict framework version then raises RuntimeError, a lenient one
\* rebuilds the stack.
add_middleware(w, h, layer, lenient) ==
    IF w.apps[h].started /\ ~lenient
    THEN Raised(w, "RuntimeError", <<"add_middleware">>)
    ELSE Returned(
           [w EXCEPT !.apps[h].user_middleware = <<layer>> \o @],
           <<"add_middleware">>)

\* app.mount(path, StaticFiles(directory=...), name=...)
mount(w, h, path, directory, name) ==
    IF ~ValidMountPath(path)
    THEN Raised(w, "AssertionError", <<"mount">>)
    ELSE Returned(
           [w EXCEPT !.apps[h].mounts =
                Append(@, [path |-> path, directory |-> directory,
                           name |-> name])],
           <<"mount">>)

\* configure_cors creating the application when there is none yet
configure_cors_lazy(w, i, lenient) ==
    IF w.app[i] = NoApp
    THEN LET w1 == [w EXCEPT !.apps = Append(@, FastAPI(cfg[i])),
                             !.app[i] = Len(w.apps) + 1]
         IN  add_middleware(w1, w1.app[i], CorsOptions(cfg[i]), lenient)
    ELSE add_middleware(w, w.app[i], CorsOptions(cfg[i]), lenient)

\* configure_cors, lines 62-73
configure_cors(w, i, lenient) ==
    IF w.app[i] = NoApp
    THEN Raised(w, "AttributeError", <<>>)
    ELSE add_middleware(w, w.app[i], CorsOptions(cfg[i]), lenient)

\* AllPresent with swagger_favicon_url left out of the list
AllPresentNoFavicon(c) ==
    /\ Truthy(c.assets_url)
    /\ Truthy(c.swagger_css_url)
    /\ Truthy(c.swagger_js_url)

\* all([assets_url, swagger_css_url, swagger_js_url, swagger_favicon_url])
AllPresent(c) ==
    /\ Truthy(c.assets_url)
    /\ Truthy(c.swagger_css_url)
    /\ Truthy(c.swagger_js_url)
    /\ Truthy(c.swagger_favicon_url)

\* os.path.exists(css_file_path) and os.path.exists(js_file_path)
FilesExist == disk.css /\ disk.js

\* Patch that leaves an override already installed in place
PatchOnce(w, i) == IF w.gsui = Original THEN [w EXCEPT !.gsui = i] ELSE w

\* applications.get_swagger_ui_html = self._swagger_monkey_patch
Patch(w, i) == [w EXCEPT !.gsui = i]

\* MountAndPatch without the assignment of line 100
MountWithoutPatch(w, i) ==
    IF w.app[i] = NoApp
    THEN Raised(w, "AttributeError", <<>>)
    ELSE mount(w, w.app[i], cfg[i].assets_url, asset_path, "assets")

\* MountAndPatch with the assignment of line 100 moved before the mount
PatchThenMount(w, i) ==
    LET p == Patch(w, i)
    IN  IF p.app[i] = NoApp
        THEN Raised(p, "AttributeError", <<"patch">>)
        ELSE LET m == mount(p, p.app[i], cfg[i].assets_url, asset_path,
                            "assets")
             IN  [m EXCEPT !.steps = <<"patch">> \o @]

\* the body of the inner if of configure_swagger_ui, lines 94-100
MountAndPatch(w, i) ==
    IF w.app[i] = NoApp
    THEN Raised(w, "AttributeError", <<>>)
    ELSE LET m == mount(w, w.app[i], cfg[i].assets_url, asset_path, "assets")
         IN  IF m.exc # "none"
             THEN m
             ELSE Returned(Patch(m.w, i), m.steps \o <<"patch">>)

\* configure_swagger_ui, lines 75-100
configure_swagger_ui(w, i) ==
    IF AllPresent(cfg[i]) /\ FilesExist
    THEN MountAndPatch(w, i)
    ELSE Returned(w, <<>>)

\* setup with configure_swagger_ui called before configure_cors
setup_swagger_first(w, i) ==
    LET w1 == [w EXCEPT !.apps = Append(@, FastAPI(cfg[i])),
                        !.app[i] = Len(w.apps) + 1]
        s  == configure_swagger_ui(w1, i)
        c  == configure_cors(s.w, i, TRUE)
    IN  IF s.exc # "none"
        THEN [s EXCEPT !.steps = <<"FastAPI">> \o @]
        ELSE [c EXCEPT !.steps = <<"FastAPI">> \o s.steps \o @]

\* setup that clears self.app again before it returns
setup_drop_reference(w, i) ==
    LET w1 == [w EXCEPT !.apps = Append(@, FastAPI(cfg[i])),
                        !.app[i] = Len(w.apps) + 1]
        c  == configure_cors(w1, i, TRUE)
        s  == configure_swagger_ui(c.w, i)
        r  == IF c.exc # "none"
              THEN [c EXCEPT !.steps = <<"FastAPI">> \o @]
              ELSE [s EXCEPT !.steps = <<"FastAPI">> \o c.steps \o @]
    IN  [r EXCEPT !.w.app[i] = NoApp]

\* setup, lines 44-60: the value returned is self
setup(w, i) ==
    LET w1 == [w EXCEPT !.apps = Append(@, FastAPI(cfg[i])),
                        !.app[i] = Len(w.apps) + 1]
        c  == configure_cors(w1, i, TRUE)
        s  == configure_swagger_ui(c.w, i)
    IN  IF c.exc # "none"
        THEN [c EXCEPT !.steps = <<"FastAPI">> \o @]
        ELSE [s EXCEPT !.steps = <<"FastAPI">> \o c.steps \o @]

\* return self
SetupReturnValue(i) == [kind |-> "AppConf", id |-> i]

(* --------------------------- serving requests --------------------------- *)
\* fastapi.openapi.docs.get_swagger_ui_html, as imported at line 5: the
\* page embeds the three URLs it is given
get_swagger_ui_html_orig(args, css, js, favicon) ==
    [openapi_url |-> args.openapi_url, title |-> args.title,
     swagger_css_url |-> css, swagger_js_url |-> js,
     swagger_favicon_url |-> favicon]

\* _swagger_monkey_patch with the CSS and JS keyword arguments exchanged
swagger_monkey_patch_swapped(i, args) ==
    get_swagger_ui_html_orig(args, cfg[i].swagger_js_url,
                             cfg[i].swagger_css_url,
                             cfg[i].swagger_favicon_url)

\* _swagger_monkey_patch, lines 102-116, bound to instance i
swagger_monkey_patch(i, args) ==
    get_swagger_ui_html_orig(args, cfg[i].swagger_css_url,
                             cfg[i].swagger_js_url,
                             cfg[i].swagger_favicon_url)

\* FastAPI registers the documentation route only when both URLs are set
HasDocs(a) == Truthy(a.openapi_url) /\ Truthy(a.docs_url)

\* the route at docs_url calls applications.get_swagger_ui_html, looked up
\* in the module when the request is served
swagger_ui_html(w, h) ==
    LET a    == w.apps[h]
        args == [openapi_url |-> a.openapi_url, title |-> a.title]
    IN  IF w.gsui = Original
        THEN get_swagger_ui_html_orig(args, DefaultCss, DefaultJs,
                                      DefaultFavicon)
        ELSE swagger_monkey_patch(w.gsui, args)

NoPage ==
    [openapi_url |-> None, title |-> None, swagger_css_url |-> None,
     swagger_js_url |-> None, swagger_favicon_url |-> None]

InSeq(x, q) == \E k \in 1..Len(q) : q[k] = x

\* CORSMiddleware's Access-Control-Allow-Origin on a simple request with an
\* Origin header
AllowOrigin(layer, origin, cookie) ==
    LET all == InSeq("*", layer.allow_origins)
    IN  IF all /\ cookie THEN origin
        ELSE IF ~all /\ InSeq(origin, layer.allow_origins) THEN origin
        ELSE IF all THEN "*"
        ELSE None

\* GET docs_url on application h with the given Origin header (None: no
\* Origin header) and with or without a Cookie header
Respond(w, h, origin, cookie) ==
    LET a     == w.apps[h]
        cors  == origin # None /\ a.user_middleware # <<>>
        layer == a.user_middleware[1]
    IN  [status |-> IF HasDocs(a) THEN 200 ELSE 404,
         page   |-> IF HasDocs(a) THEN swagger_ui_html(w, h) ELSE NoPage,
         acao   |-> IF cors THEN AllowOrigin(layer, origin, cookie) ELSE None,
         acac   |-> IF cors /\ layer.allow_credentials THEN "true" ELSE None]

NoResponse == [status |-> 0, page |-> NoPage, acao |-> None, acac |-> None]

(* ------------------------------- actions -------------------------------- *)
RECURSIVE RegisteredUpTo(_)
RegisteredUpTo(n) ==
    IF n = 0 THEN 0
    ELSE Len(apps[n].user_middleware) + Len(apps[n].mounts)
           + RegisteredUpTo(n - 1)

\* the middleware layers and mounts registered so far
Registered == RegisteredUpTo(Len(apps))

NoValue == [kind |-> None, id |-> 0]

Call(op, i, r, value) ==
    [op |-> op, inst |-> i, h |-> r.w.app[i], exc |-> r.exc,
     value |-> IF r.exc = "none" THEN value ELSE NoValue,
     steps |-> r.steps, origin |-> None, cookie |-> FALSE,
     resp |-> NoResponse]

Commit(r) ==
    /\ app' = r.w.app
    /\ apps' = r.w.apps
    /\ get_swagger_ui_html' = r.w.gsui

Init ==
    /\ cfg \in {c \in [Instances -> Configs] : c[2] \in Configs2}
    /\ disk \in [css : BOOLEAN, js : BOOLEAN]
    /\ app = [i \in Instances |-> NoApp]
    /\ apps = <<>>
    /\ get_swagger_ui_html = Original
    /\ ret = [op |-> "init", inst |-> 0, h |-> NoApp, exc |-> "none",
              value |-> NoValue, steps |-> <<>>, origin |-> None,
              cookie |-> FALSE, resp |-> NoResponse]

\* conf.setup()
Setup(i) ==
    /\ Registered < MaxRegistered
    /\ LET r == setup(World, i)
       IN  /\ Commit(r)
           /\ ret' = Call("setup", i, r, SetupReturnValue(i))
    /\ UNCHANGED <<cfg, disk>>

\* conf.configure_cors(), called by the program itself
ConfigureCors(i) ==
    /\ app[i] # NoApp => Registered < MaxRegistered
    /\ \E lenient \in BOOLEAN :
         LET r == configure_cors(World, i, lenient)
         IN  /\ Commit(r)
             /\ ret' = Call("configure_cors", i, r, NoValue)
    /\ UNCHANGED <<cfg, disk>>

\* conf.configure_swagger_ui(), called by the program itself
ConfigureSwaggerUi(i) ==
    /\ app[i] # NoApp => Registered < MaxRegistered
    /\ LET r == configure_swagger_ui(World, i)
       IN  /\ Commit(r)
           /\ ret' = Call("configure_swagger_ui", i, r, NoValue)
    /\ UNCHANGED <<cfg, disk>>

\* a client requests the documentation page of application h
Get(h, origin, cookie) ==
    /\ h \in 1..Len(apps)
    /\ apps' = [apps EXCEPT ![h].started = TRUE]
    /\ ret' = [op |-> "GET", inst |-> 0, h |-> h, exc |-> "none",
               value |-> NoValue, steps |-> <<>>, origin |-> origin,
               cookie |-> cookie,
               resp |-> Respond(World, h, origin, cookie)]
    /\ UNCHANGED <<cfg, disk, app, get_swagger_ui_html>>

Next ==
    \/ \E i \in Instances : Setup(i)
    \/ \E i \in Instances : ConfigureCors(i)
    \/ \E i \in Instances : ConfigureSwaggerUi(i)
    \/ \E h \in 1..Len(apps), o \in Origins \cup {None}, c \in BOOLEAN :
         Get(h, o, c)

Spec == Init /\ [][Next]_vars

(* ------------------------------ properties ------------------------------ *)
\* one of the four asset fields is absent (None) or empty
AnyAssetFieldMissing(c) ==
    \E v \in {c.assets_url, c.swagger_css_url, c.swagger_js_url,
              c.swagger_favicon_url} : v = None \/ v = ""

\* swagger-ui.css or swagger-ui-bundle.js is not on disk
BundledFileMissing == ~disk.css \/ ~disk.js

\* the page embeds exactly these three URLs
Embeds(page, css, js, favicon) ==
    /\ page.swagger_css_url = css
    /\ page.swagger_js_url = js
    /\ page.swagger_favicon_url = favicon

EmbedsConfig(page, c) ==
    Embeds(page, c.swagger_css_url, c.swagger_js_url, c.swagger_favicon_url)

EmbedsDefaults(page) == Embeds(page, DefaultCss, DefaultJs, DefaultFavicon)

\* the cross-origin layer configure_cors is to register for configuration c
CorsLayerOf(c) ==
    [cls |-> "CORSMiddleware", allow_origins |-> c.origins,
     allow_credentials |-> TRUE, allow_methods |-> <<"*">>,
     allow_headers |-> <<"*">>]

\* the application FastAPI() is to create for configuration c, with the
\* given middleware and mounts
HandleOf(c, middleware, mounts) ==
    [title |-> c.title, version |-> c.version,
     openapi_url |-> c.openapi_url, docs_url |-> c.docs_url,
     user_middleware |-> middleware, mounts |-> mounts, started |-> FALSE]

\* the static mount configure_swagger_ui is to add for configuration c
AssetMountOf(c) ==
    [path |-> c.assets_url, directory |-> "fastapi_offline_swagger_ui",
     name |-> "assets"]

\* the applications that existed before a step are the same after it
OldAppsKept == \A h \in 1..Len(apps) : apps'[h] = apps[h]

\* C1: when one of the four asset fields is absent or empty, or all four
\* are present but a bundled file is missing, configure_swagger_ui is a
\* complete no-op: called on its own it changes nothing and raises nothing;
\* within setup() no mount is added, applications.get_swagger_ui_html is
\* left as it was, nothing is raised and the instance ends with a fresh
\* application that carries the cross-origin layer.
C1_Step ==
    \A i \in Instances :
      (ret'.inst = i /\ (AnyAssetFieldMissing(cfg[i]) \/ BundledFileMissing))
      => /\ ret'.op = "configure_swagger_ui"
              => /\ ret'.exc = "none"
                 /\ ret'.steps = <<>>
                 /\ UNCHANGED <<app, apps, get_swagger_ui_html>>
         /\ ret'.op = "setup"
              => /\ ret'.exc = "none"
                 /\ get_swagger_ui_html' = get_swagger_ui_html
                 /\ Len(apps') = Len(apps) + 1
                 /\ OldAppsKept
                 /\ app'[i] = Len(apps')
                 /\ apps'[app'[i]] =
                      HandleOf(cfg[i], <<CorsLayerOf(cfg[i])>>, <<>>)

C1_SkipIsNoOp == [][C1_Step]_vars

\* C1 witness: instance 1 lacks an asset field and has been set up while
\* the override of instance 2 was installed; the override is still there.
C1_Witness ==
    /\ ret.op = "setup" /\ ret.inst = 1 /\ ret.exc = "none"
    /\ AnyAssetFieldMissing(cfg[1])
    /\ get_swagger_ui_html = 2
    /\ apps[app[1]].mounts = <<>>

\* C2: after a setup() that returned, for a configuration with all four
\* asset fields and both bundled files present, the application has the
\* static mount of the bundled directory at assets_url, and
\* applications.get_swagger_ui_html is the wrapper of that instance, which
\* forwards its arguments and adds the instance's three URLs, so that the
\* documentation page embeds them verbatim.
C2_MountAndOverride ==
    \A i \in Instances :
      ( /\ ret.op = "setup" /\ ret.inst = i /\ ret.exc = "none"
        /\ ~AnyAssetFieldMissing(cfg[i]) /\ ~BundledFileMissing )
      => LET a == apps[app[i]]
         IN  /\ a.mounts = <<AssetMountOf(cfg[i])>>
             /\ get_swagger_ui_html = i
             /\ \A t \in {"A", "B"}, u \in {None, "/openapi.json"} :
                  LET page == swagger_monkey_patch(
                                i, [openapi_url |-> u, title |-> t])
                  IN  /\ page.openapi_url = u /\ page.title = t
                      /\ EmbedsConfig(page, cfg[i])
             /\ HasDocs(a)
                  => LET r == Respond(World, app[i], None, FALSE)
                     IN  /\ r.status = 200
                         /\ r.page.title = cfg[i].title
                         /\ r.page.openapi_url = cfg[i].openapi_url
                         /\ EmbedsConfig(r.page, cfg[i])

\* C2 witness: a full configuration has been set up with both files present
C2_Witness ==
    /\ ret.op = "setup" /\ ret.inst = 1 /\ ret.exc = "none"
    /\ cfg[1] = ConfA /\ disk.css /\ disk.js
    /\ Len(apps[app[1]].mounts) = 1

\* the call recorded in ret assigned applications.get_swagger_ui_html
Overrode(r) ==
    r.exc = "none" /\ r.steps # <<>> /\ r.steps[Len(r.steps)] = "patch"

\* C3: when an instance performs the override while the override of an
\* earlier call is installed, the later one replaces it, and every
\* documentation page served from then on, on whichever application, embeds
\* the three URLs of the instance whose override was performed last.
C3_Step ==
    /\ \A i \in Instances :
         ( /\ ret'.op = "setup" /\ ret'.inst = i /\ Overrode(ret')
           /\ get_swagger_ui_html # Original )
         => get_swagger_ui_html' = i
    /\ ( /\ ret'.op = "GET" /\ ret'.resp.status = 200
         /\ get_swagger_ui_html # Original )
       => /\ get_swagger_ui_html' = get_swagger_ui_html
          /\ EmbedsConfig(ret'.resp.page, cfg[get_swagger_ui_html])

C3_LastWriteWins == [][C3_Step]_vars

\* C3 witness: instance 2 was set up first, instance 1 second, both with an
\* override; the page of instance 2's application embeds instance 1's URLs.
C3_Witness ==
    /\ ret.op = "GET" /\ ret.resp.status = 200
    /\ app[1] # NoApp /\ app[2] # NoApp /\ app[2] < app[1]
    /\ ret.h = app[2]
    /\ apps[app[1]].mounts # <<>> /\ apps[app[2]].mounts # <<>>
    /\ cfg[1].swagger_css_url # cfg[2].swagger_css_url
    /\ EmbedsConfig(ret.resp.page, cfg[1])

\* the override was performed when application h was configured
CustomAssetsConfigured(h) == apps[h].mounts # <<>>

\* C4 as stated: the documentation page of an application embeds the custom
\* URLs of that application's own configuration if custom assets were
\* configured for it, and the framework's defaults otherwise.
C4_OwnConfigDecides ==
    \A i \in Instances :
      (ret.op = "GET" /\ ret.resp.status = 200 /\ ret.h = app[i])
      => IF CustomAssetsConfigured(ret.h)
         THEN EmbedsConfig(ret.resp.page, cfg[i])
         ELSE EmbedsDefaults(ret.resp.page)

\* C4 amended: the documentation page of every application embeds the
\* framework's defaults as long as no application of the process had the
\* override performed, and otherwise the custom URLs of the one instance
\* whose override is installed, whichever application is asked.
C4_InstalledOverrideDecides ==
    (ret.op = "GET" /\ ret.resp.status = 200)
    => IF \A h \in 1..Len(apps) : ~CustomAssetsConfigured(h)
       THEN EmbedsDefaults(ret.resp.page)
       ELSE /\ get_swagger_ui_html \in Instances
            /\ ~AnyAssetFieldMissing(cfg[get_swagger_ui_html])
            /\ app[get_swagger_ui_html] # NoApp
            /\ EmbedsConfig(ret.resp.page, cfg[get_swagger_ui_html])

\* C4 witness: an application without custom assets serves a page with the
\* custom URLs of the other instance.
C4_Witness ==
    /\ ret.op = "GET" /\ ret.resp.status = 200
    /\ ret.h = app[1] /\ ~CustomAssetsConfigured(ret.h)
    /\ get_swagger_ui_html = 2
    /\ EmbedsConfig(ret.resp.page, cfg[2])

\* C5 as stated: setup() returns the application it has just created.
C5_ReturnsHandle ==
    (ret.op = "setup" /\ ret.exc = "none")
    => ret.value = [kind |-> "FastAPI", id |-> app[ret.inst]]

\* m occurs before n in the calls q, or n does not occur
Before(q, m, n) ==
    \A k \in 1..Len(q) : q[k] = n => \E j \in 1..(k - 1) : q[j] = m

\* C6: every setup() creates the application, then registers the
\* cross-origin layer, then configures the assets: when it ends, returned or
\* raised, the new application carries the layer exactly once (origins of
\* the configuration, credentials allowed, all methods, all headers), and
\* the layer was registered before any mount or override of that call.
C6_SetupOrder ==
    \A i \in Instances :
      (ret.op = "setup" /\ ret.inst = i)
      => /\ app[i] = Len(apps) /\ ret.h = app[i]
         /\ apps[app[i]].user_middleware = <<CorsLayerOf(cfg[i])>>
         /\ Len(ret.steps) >= 2
         /\ ret.steps[1] = "FastAPI"
         /\ ret.steps[2] = "add_middleware"
         /\ \A k \in 3..Len(ret.steps) : ret.steps[k] \in {"mount", "patch"}
         /\ Before(ret.steps, "mount", "patch")
         /\ Len(apps[app[i]].mounts) <= 1

\* C6 witness: a setup() that went through all three steps
C6_Witness ==
    /\ ret.op = "setup"
    /\ ret.steps = <<"FastAPI", "add_middleware", "mount", "patch">>
    /\ Len(apps[ret.h].user_middleware) = 1

\* the answer to a request from the given origin is as C7 demands for an
\* application whose list of origins is q
CorsAnswerFor(q, origin, resp) ==
    IF InSeq(origin, q)
    THEN resp.acao = origin /\ resp.acac = "true"
    ELSE resp.acao # origin

\* C7 as stated: for every non-empty list of origins.
C7_AnyList ==
    \A i \in Instances :
      ( /\ ret.op = "GET" /\ ret.origin # None /\ ret.h = app[i]
        /\ cfg[i].origins # <<>> )
      => CorsAnswerFor(cfg[i].origins, ret.origin, ret.resp)

\* C7 amended: for every non-empty list of origins without the wildcard
\* "*", a request from a listed origin is answered with
\* Access-Control-Allow-Origin equal to that origin and
\* Access-Control-Allow-Credentials: true, and a request from an origin not
\* listed is never answered with its own origin.
C7_ListWithoutWildcard ==
    \A i \in Instances :
      ( /\ ret.op = "GET" /\ ret.origin # None /\ ret.h = app[i]
        /\ cfg[i].origins # <<>> /\ ~InSeq("*", cfg[i].origins) )
      => CorsAnswerFor(cfg[i].origins, ret.origin, ret.resp)

\* C7 witness: a request from an origin the list does not name
C7_Witness ==
    /\ ret.op = "GET" /\ ret.origin = "https://b.example"
    /\ ret.h = app[1] /\ cfg[1].origins = <<"https://a.example">>
    /\ ret.resp.acao = None /\ ret.resp.acac = "true"

\* C8 as stated: app starts unset, and the instance holds no reference to
\* the application once setup() has returned.
C8_NoReferenceKept ==
    /\ ret.op = "init" => \A i \in Instances : app[i] = NoApp
    /\ (ret.op = "setup" /\ ret.exc = "none") => app[ret.inst] = NoApp

\* C8 amended: app starts unset; setup() stores the application it creates
\* in app and the instance keeps that reference after setup() has returned;
\* a setup() changes neither the app field of another instance nor an
\* application created earlier.
C8_Step ==
    \A i \in Instances :
      (ret'.op = "setup" /\ ret'.inst = i)
      => /\ app'[i] = Len(apps) + 1
         /\ Len(apps') = Len(apps) + 1
         /\ \A j \in Instances \ {i} : app'[j] = app[j]
         /\ OldAppsKept

C8_ReferenceKept ==
    /\ [](ret.op = "init" => \A i \in Instances : app[i] = NoApp)
    /\ [][C8_Step]_vars

\* C8 witness: setup() has returned and the instance refers to the
\* application
C8_Witness ==
    /\ ret.op = "setup" /\ ret.exc = "none" /\ ret.inst = 2
    /\ app[2] = Len(apps) /\ app[1] # NoApp

\* C9 as stated: once an instance is configured nothing changes its
\* application, nor the middleware and the mounts of that application.
C9_TerminalStep ==
    \A i \in Instances :
      app[i] # NoApp
      => /\ app'[i] = app[i]
         /\ apps'[app[i]].user_middleware = apps[app[i]].user_middleware
         /\ apps'[app[i]].mounts = apps[app[i]].mounts

C9_ConfiguredIsTerminal == [][C9_TerminalStep]_vars

\* q ends with p
EndsWith(q, p) ==
    Len(p) <= Len(q) /\ SubSeq(q, Len(q) - Len(p) + 1, Len(q)) = p

\* q starts with p
StartsWith(q, p) == Len(p) <= Len(q) /\ SubSeq(q, 1, Len(p)) = p

\* C9 amended: an instance is unconfigured or configured; it becomes
\* configured only by its own setup() and never becomes unconfigured
\* again; its app field changes only by its own setup(), which puts a new
\* application there; an application never loses a middleware layer or a
\* mount, but later calls may add some.
C9_AmendedStep ==
    /\ \A i \in Instances :
         /\ app[i] # NoApp => app'[i] # NoApp
         /\ app'[i] # app[i]
              => /\ ret'.op = "setup" /\ ret'.inst = i
                 /\ app'[i] = Len(apps) + 1
    /\ \A h \in 1..Len(apps) :
         /\ EndsWith(apps'[h].user_middleware, apps[h].user_middleware)
         /\ StartsWith(apps'[h].mounts, apps[h].mounts)

C9_OnlySetupConfigures == [][C9_AmendedStep]_vars

\* C9 witness: a configured instance whose application has received a
\* second cross-origin layer after setup()
C9_Witness ==
    /\ ret.op = "configure_cors" /\ ret.exc = "none"
    /\ Len(apps[app[ret.inst]].user_middleware) = 2

\* C10: in configure_swagger_ui the mount comes before the override: when
\* the mount raises, because app is unset or because the framework rejects
\* the path, the error reaches the caller and
\* applications.get_swagger_ui_html is left as it was; configure_cors on an
\* instance whose app is unset raises and changes nothing.
C10_Step ==
    \A i \in Instances :
      ret'.inst = i
      => /\ (ret'.op = "configure_cors" /\ app[i] = NoApp)
              => /\ ret'.exc = "AttributeError"
                 /\ UNCHANGED <<app, apps, get_swagger_ui_html>>
         /\ ( /\ ret'.op = "configure_swagger_ui" /\ app[i] = NoApp
              /\ ~AnyAssetFieldMissing(cfg[i]) /\ ~BundledFileMissing )
              => /\ ret'.exc = "AttributeError"
                 /\ UNCHANGED <<app, apps, get_swagger_ui_html>>
         /\ ( /\ ret'.op \in {"setup", "configure_swagger_ui"}
              /\ ret'.op = "configure_swagger_ui" => app[i] # NoApp
              /\ ~AnyAssetFieldMissing(cfg[i]) /\ ~BundledFileMissing
              /\ cfg[i].assets_url = "assets" )
              => /\ ret'.exc = "AssertionError"
                 /\ get_swagger_ui_html' = get_swagger_ui_html
                 /\ apps'[app'[i]].mounts = <<>>
         /\ (ret'.op \in {"setup", "configure_swagger_ui"}
               /\ ret'.exc # "none")
              => /\ get_swagger_ui_html' = get_swagger_ui_html
                 /\ ~InSeq("patch", ret'.steps)
         /\ ret'.op \in {"setup", "configure_swagger_ui"}
              => Before(ret'.steps, "mount", "patch")

C10_MountRaisesBeforeOverride == [][C10_Step]_vars

\* C10 witness: the mount of instance 2 was rejected during setup() while
\* the override of instance 1 was installed, and it still is
C10_Witness ==
    /\ ret.op = "setup" /\ ret.inst = 2 /\ ret.exc = "AssertionError"
    /\ ret.steps = <<"FastAPI", "add_middleware", "mount">>
    /\ get_swagger_ui_html = 1

====
